---- MODULE Spec2Model ----
(***************************************************************************)
(* Model of omen-rgb.py: the HP OMEN keyboard RGB controller.              *)
(*                                                                         *)
(* One foreground context (the Qt event loop running the RGBController     *)
(* handlers) and the animation threads (RainbowThread, NewYearsThread,     *)
(* PoliceThread) share the sysfs colour attribute and the module global    *)
(* _current_hardware_color.  A hex colour string is a sequence of one      *)
(* character strings; None is the empty sequence.                          *)
(***************************************************************************)
EXTENDS Integers, Sequences, FiniteSets, TLC

\* ------------------------------------------------------------------ bounds
MaxEvents == 2      \* user events (clicks) dispatched by the event loop
MaxTicks  == 3      \* loop iterations one animation thread performs
HueTicks  == 361    \* loop iterations of the rainbow thread of SpecRainbow
MaxFaults == 1      \* hardware writes that fail, errors raised inside a tick

\* -------------------------------------------------------- program constants
STATIC_DURATION_MS == 100
steps == 20

None == <<>>

Red    == <<"f","f","0","0","0","0">>
Green  == <<"0","0","f","f","0","0">>
Blue   == <<"0","0","0","0","f","f">>
Purple == <<"8","0","0","0","8","0">>
White  == <<"f","f","f","f","f","f">>
Orange == <<"f","f","7","f","0","0">>

PRESETS == {Red, Green, Blue, Purple, White, Orange}

\* the mode items of the tree (init_ui) and its two category items
ModeNames  == {"Static Color", "Rainbow", "New Year's", "Police"}
Categories == {"Static", "Animated"}

\* ------------------------------------------------------------ hex strings
HexDigits   == <<"0","1","2","3","4","5","6","7","8","9","a","b","c","d","e","f">>
UpperDigits == <<"0","1","2","3","4","5","6","7","8","9","A","B","C","D","E","F">>

\* int(ch, 16) of one hex digit of either case
DigitValue(ch) == CHOOSE v \in 0..15 : HexDigits[v + 1] = ch \/ UpperDigits[v + 1] = ch

\* a comparison that keeps the case of the digits
lower_KeepCase(h) == h

\* str.lower()
lower(h) == [k \in 1..Len(h) |-> HexDigits[DigitValue(h[k]) + 1]]

hex_to_rgb(h) ==
    << 16 * DigitValue(h[1]) + DigitValue(h[2]),
       16 * DigitValue(h[3]) + DigitValue(h[4]),
       16 * DigitValue(h[5]) + DigitValue(h[6]) >>

\* format spec 02x of one channel
Fmt02x(n) == << HexDigits[(n \div 16) + 1], HexDigits[(n % 16) + 1] >>

rgb_to_hex(c) == Fmt02x(c[1]) \o Fmt02x(c[2]) \o Fmt02x(c[3])

\* The interpolation is computed in IEEE-754 doubles: t = i / steps is the
\* double nearest to i/20, and int(c0 + (c1 - c0) * t) truncates the double
\* sum.  For these (i, c1 - c0, c0) the double sum falls just below the exact
\* integer value and the truncation is one less than the exact quotient.
FloatShort ==
    { [i |-> 7,  d |-> 180,  lo |-> 0,   hi |-> 1],
      [i |-> 11, d |-> -220, lo |-> 220, hi |-> 249],
      [i |-> 11, d |-> -200, lo |-> 200, hi |-> 238],
      [i |-> 11, d |-> -180, lo |-> 180, hi |-> 227],
      [i |-> 11, d |-> -100, lo |-> 100, hi |-> 119],
      [i |-> 14, d |-> 90,   lo |-> 0,   hi |-> 1],
      [i |-> 14, d |-> 170,  lo |-> 0,   hi |-> 9],
      [i |-> 14, d |-> 180,  lo |-> 0,   hi |-> 2] }

\* int(c0 + (c1 - c0) * t) with t = i / steps, one channel
Lerp(c0, c1, i) ==
    LET exact == (steps * c0 + (c1 - c0) * i) \div steps
        short == \E e \in FloatShort :
                    e.i = i /\ e.d = c1 - c0 /\ c0 >= e.lo /\ c0 <= e.hi
    IN  IF short THEN exact - 1 ELSE exact

\* the loop running over range(0, steps)
StepColor_FromZero(a, b, i) ==
    rgb_to_hex(<< Lerp(a[1], b[1], i - 1), Lerp(a[2], b[2], i - 1),
                  Lerp(a[3], b[3], i - 1) >>)

\* the colour written by step i of the transition from rgb a to rgb b
StepColor(a, b, i) ==
    rgb_to_hex(<< Lerp(a[1], b[1], i), Lerp(a[2], b[2], i), Lerp(a[3], b[3], i) >>)

\* QColor.fromHsv(h, 255, 255).name()[1:]: sector h / 60, fraction (h % 60) / 60,
\* 16-bit channels qRound(x * 65535), name() prints the high byte of each
Ramp(k) == ((2 * 65535 * k + 60) \div 120) \div 256

HsvName(h) ==
    LET s == h \div 60
        t == Ramp(h % 60)
        q == Ramp(60 - (h % 60))
    IN  rgb_to_hex(CASE s = 0 -> << 255, t, 0 >>
                     [] s = 1 -> << q, 255, 0 >>
                     [] s = 2 -> << 0, 255, t >>
                     [] s = 3 -> << 0, q, 255 >>
                     [] s = 4 -> << t, 0, 255 >>
                     [] OTHER -> << 255, 0, q >>)

\* python truth value of duration_ms: None and 0 are false
Truthy(d) == d # None /\ d[1] # 0

\* ------------------------------------------------------------------ inputs
\* colours QColorDialog.getColor() hands back (name() is lowercase); None is
\* a cancelled dialog
CustomColors == { <<"6","4","0","0","0","0">> }
\* the preset buttons clicked
ClickedPresets == { Red, White }
\* results of get_wallpaper_primary_color(): the regular expression accepts
\* digits of either case; None when the theme file or the key is missing
WallpaperColors == { None, <<"F","F","0","0","0","0">> }
\* what an earlier run of the program left in the settings store
StoredModes  == ModeNames \cup {"absent"}
StoredColors == { None, Blue }

VARIABLES
    settings,        \* QSettings: lastMode ("absent" if no key), lastStaticColor (None if no key)
    optionsMode,     \* mode the options box was last rebuilt for ("none" before)
    active_thread,   \* RGBController.active_thread: index into threads, 0 is None
    threads,         \* every animation thread object created so far
    hw,              \* _current_hardware_color
    zone,            \* content of the sysfs attribute ZONE_PATH
    uiPc,            \* position of the event loop context
    uiStack,         \* return positions of the calls in progress
    uiArgs,          \* arguments of the running handler
    sc,              \* locals of the current (or last) set_color call
    wcol,            \* argument of the write_color call of the event loop context
    initPending,     \* the QTimer.singleShot(100, initialize_state) has not fired
    exited,          \* QApplication.quit() was called
    events,          \* user events dispatched
    faults,          \* failed hardware writes
    lastWriter,      \* the animation thread that issued the latest animation write, 0 if none
    handovers        \* times the latest animation writer changed from one thread to another

vars == << settings, optionsMode, active_thread, threads, hw, zone, uiPc, uiStack,
           uiArgs, sc, wcol, initPending, exited, events, faults, lastWriter, handovers >>

uiVars == << settings, optionsMode, active_thread, uiPc, uiStack, uiArgs, sc, wcol,
             initPending, exited, events >>

AnimatedModes == {"Rainbow", "New Year's", "Police"}

\* self.colors of the two-colour threads
Palette(kind) == IF kind = "New Year's" THEN << Red, Green >> ELSE << Red, Blue >>

\* QSettings.value(key, default)
SettingsValue_Default(key, default) == default

SettingsValue(key, default) ==
    IF key = "lastMode"
    THEN IF settings.lastMode = "absent" THEN default ELSE settings.lastMode
    ELSE IF settings.lastStaticColor = None THEN default ELSE settings.lastStaticColor

NoArgs == [mode |-> "none", is_startup |-> FALSE, color |-> None]

NoCall == [target |-> None, dur |-> None, from |-> None, c0 |-> << 0, 0, 0 >>,
           c1 |-> << 0, 0, 0 >>, i |-> 0, n |-> 0, last |-> None,
           failed |-> FALSE, raised |-> FALSE, state |-> "none", caller |-> "none"]

Init ==
    \* every handler that stores lastStaticColor stores lastMode as well
    /\ settings \in { st \in [lastMode : StoredModes, lastStaticColor : StoredColors] :
                         st.lastStaticColor # None => st.lastMode # "absent" }
    /\ optionsMode = "none"
    /\ active_thread = 0
    /\ threads = << >>
    /\ hw = None
    /\ zone = None
    /\ uiPc = "idle"
    /\ uiStack = << >>
    /\ uiArgs = NoArgs
    /\ sc = NoCall
    /\ wcol = None
    /\ initPending = TRUE
    /\ exited = FALSE
    /\ events = 0
    /\ faults = 0
    /\ lastWriter = 0
    /\ handovers = 0

\* the event loop takes the next event only when the running handler returned
Idle == uiPc = "idle" /\ ~exited

\* a QThread is live from start() until run() has returned
Live(t) == threads[t].state = "running"

\* ------------------------------------------------- calls of the event loop
Call(target, ret) == uiPc' = target /\ uiStack' = << ret >> \o uiStack
\* a return; the arguments of the handler are gone once it returns to the event loop
Return ==
    /\ uiPc' = Head(uiStack)
    /\ uiStack' = Tail(uiStack)
    /\ uiArgs' = IF Head(uiStack) = "idle" THEN NoArgs ELSE uiArgs

\* entry of set_color(col_hex, duration_ms)
EnterSetColor(col_hex, duration_ms, caller) ==
    sc' = [NoCall EXCEPT !.target = col_hex, !.dur = duration_ms,
                         !.state = "called", !.caller = caller]

\* ------------------------------------------------------------- UI events
\* itemClicked -> on_mode(item, _)
on_mode(item) ==
    /\ Idle
    /\ events < MaxEvents
    /\ events' = events + 1
    /\ IF item \in Categories
       THEN UNCHANGED << settings, optionsMode, uiArgs, uiPc, uiStack >>
       ELSE /\ settings' = [settings EXCEPT !.lastMode = item]
            /\ optionsMode' = item
            /\ uiArgs' = [mode |-> item, is_startup |-> FALSE, color |-> None]
            /\ Call("activate_mode", "idle")
    /\ UNCHANGED << active_thread, threads, hw, zone, sc, wcol, initPending,
                    exited, faults, lastWriter, handovers >>

\* the buttons of the options box exist only after rebuild_options_ui("Static Color")
StaticButtons == optionsMode = "Static Color"

\* a preset button: clicked -> apply_static_color(hexc)
preset_clicked(hexc) ==
    /\ Idle
    /\ StaticButtons
    /\ events < MaxEvents
    /\ events' = events + 1
    /\ uiArgs' = [uiArgs EXCEPT !.color = hexc]
    /\ Call("apply_static_color", "idle")
    /\ UNCHANGED << settings, optionsMode, active_thread, threads, hw, zone, sc,
                    wcol, initPending, exited, faults, lastWriter, handovers >>

\* "Choose Custom Color": c is the dialog's colour name, None when c.isValid() is false
pick_color(c) ==
    /\ Idle
    /\ StaticButtons
    /\ events < MaxEvents
    /\ events' = events + 1
    /\ IF c # None
       THEN /\ uiArgs' = [uiArgs EXCEPT !.color = c]
            /\ Call("apply_static_color", "idle")
       ELSE UNCHANGED << uiArgs, uiPc, uiStack >>
    /\ UNCHANGED << settings, optionsMode, active_thread, threads, hw, zone, sc,
                    wcol, initPending, exited, faults, lastWriter, handovers >>

\* "Apply Wallpaper Color": w is the result of get_wallpaper_primary_color()
apply_wallpaper_color(w) ==
    /\ Idle
    /\ StaticButtons
    /\ events < MaxEvents
    /\ events' = events + 1
    /\ uiArgs' = [uiArgs EXCEPT !.color = IF w # None THEN w ELSE White]
    /\ Call("apply_static_color", "idle")
    /\ UNCHANGED << settings, optionsMode, active_thread, threads, hw, zone, sc,
                    wcol, initPending, exited, faults, lastWriter, handovers >>

\* an exit that quits without stopping the animation
exit_app_NoStop ==
    /\ Idle
    /\ uiPc' = "exit_quit"
    /\ uiStack' = << "idle" >>
    /\ UNCHANGED << settings, optionsMode, active_thread, threads, hw, zone, uiArgs,
                    sc, wcol, initPending, exited, events, faults, lastWriter, handovers >>

\* tray menu "Exit"
exit_app ==
    /\ Idle
    /\ uiPc' = "stop_active_thread"
    /\ uiStack' = << "exit_quit", "idle" >>
    /\ UNCHANGED << settings, optionsMode, active_thread, threads, hw, zone, uiArgs,
                    sc, wcol, initPending, exited, events, faults, lastWriter, handovers >>

\* exit_app after stop_active_thread: tray.hide(); QApplication.quit()
exit_quit ==
    /\ uiPc = "exit_quit"
    /\ exited' = TRUE
    /\ Return
    /\ UNCHANGED << settings, optionsMode, active_thread, threads, hw, zone,
                    sc, wcol, initPending, events, faults, lastWriter, handovers >>

\* the single shot timer fires: initialize_state, up to the first call that
\* touches the hardware; w is the result of get_wallpaper_primary_color()
initialize_state(w) ==
    /\ Idle
    /\ initPending
    /\ initPending' = FALSE
    /\ IF w # None
       THEN \* initial_color_setup: set_color(wallpaper_color_hex, duration_ms=None)
            /\ uiArgs' = [mode |-> "none", is_startup |-> TRUE, color |-> w]
            /\ EnterSetColor(w, None, "initial_color_setup")
            /\ uiPc' = "set_color"
            /\ uiStack' = << "initial_color_setup", "update_ui_from_settings", "idle" >>
       ELSE \* load_settings: activate_mode(lastMode, is_startup=True)
            /\ uiArgs' = [mode |-> SettingsValue("lastMode", "Static Color"),
                          is_startup |-> TRUE, color |-> None]
            /\ uiPc' = "activate_mode"
            /\ uiStack' = << "update_ui_from_settings", "idle" >>
            /\ UNCHANGED sc
    /\ UNCHANGED << settings, optionsMode, active_thread, threads, hw, zone, wcol,
                    exited, events, faults, lastWriter, handovers >>

\* initial_color_setup that stores the colour and leaves lastMode as it was
initial_color_setup_KeepMode ==
    /\ uiPc = "initial_color_setup"
    /\ settings' = [settings EXCEPT !.lastStaticColor = uiArgs.color]
    /\ sc' = NoCall
    /\ Return
    /\ UNCHANGED << optionsMode, active_thread, threads, hw, zone, wcol,
                    initPending, exited, events, faults, lastWriter, handovers >>

\* initial_color_setup after set_color returned: persist and return True
initial_color_setup ==
    /\ uiPc = "initial_color_setup"
    /\ settings' = [lastMode |-> "Static Color", lastStaticColor |-> uiArgs.color]
    /\ sc' = NoCall
    /\ Return
    /\ UNCHANGED << optionsMode, active_thread, threads, hw, zone, wcol,
                    initPending, exited, events, faults, lastWriter, handovers >>

\* update_ui_from_settings: select the stored mode's item, rebuild the options box
update_ui_from_settings ==
    /\ uiPc = "update_ui_from_settings"
    /\ LET current_mode_name == SettingsValue("lastMode", "Static Color")
       IN  optionsMode' = IF current_mode_name \in ModeNames
                          THEN current_mode_name ELSE "Static Color"
    /\ Return
    /\ UNCHANGED << settings, active_thread, threads, hw, zone, sc, wcol,
                    initPending, exited, events, faults, lastWriter, handovers >>

\* ------------------------------------------------ RGBController internals
\* activate_mode, first statement: self.stop_active_thread()
activate_mode ==
    /\ uiPc = "activate_mode"
    /\ Call("stop_active_thread", "activate_branch")
    /\ UNCHANGED << settings, optionsMode, active_thread, threads, hw, zone, uiArgs,
                    sc, wcol, initPending, exited, events, faults, lastWriter, handovers >>

\* activate_mode, the if/elif chain on mode; start_thread is entered as the
\* last statement, so it returns to the caller of activate_mode
activate_branch ==
    /\ uiPc = "activate_branch"
    /\ IF uiArgs.mode = "Static Color"
       THEN /\ EnterSetColor(SettingsValue("lastStaticColor", White),
                             IF uiArgs.is_startup THEN None
                                                  ELSE << STATIC_DURATION_MS >>,
                             "activate_mode")
            /\ Call("set_color", "activate_return")
            /\ UNCHANGED uiArgs
       ELSE IF uiArgs.mode \in AnimatedModes
       THEN /\ uiPc' = "start_thread"
            /\ UNCHANGED << uiStack, uiArgs, sc >>
       ELSE /\ Return
            /\ UNCHANGED sc
    /\ UNCHANGED << settings, optionsMode, active_thread, threads, hw, zone,
                    wcol, initPending, exited, events, faults, lastWriter, handovers >>

\* activate_mode returns after set_color
activate_return ==
    /\ uiPc = "activate_return"
    /\ sc' = NoCall
    /\ Return
    /\ UNCHANGED << settings, optionsMode, active_thread, threads, hw, zone,
                    wcol, initPending, exited, events, faults, lastWriter, handovers >>

\* start_thread, first statement: self.stop_active_thread()
start_thread ==
    /\ uiPc = "start_thread"
    /\ Call("stop_active_thread", "start_assign")
    /\ UNCHANGED << settings, optionsMode, active_thread, threads, hw, zone, uiArgs,
                    sc, wcol, initPending, exited, events, faults, lastWriter, handovers >>

\* a thread object as its constructor leaves it, once start() was called
NewThread(kind) ==
    [kind |-> kind, state |-> "running", stop |-> FALSE, pc |-> "check",
     color_index |-> 0, hue |-> 0, log |-> << >>, joined |-> FALSE,
     error |-> FALSE, limit |-> MaxTicks]

\* start_thread: self.active_thread = thread_instance; self.active_thread.start()
start_assign ==
    /\ uiPc = "start_assign"
    /\ threads' = Append(threads, NewThread(uiArgs.mode))
    /\ active_thread' = Len(threads) + 1
    /\ Return
    /\ UNCHANGED << settings, optionsMode, hw, zone, sc, wcol, initPending,
                    exited, events, faults, lastWriter, handovers >>

\* stop_active_thread: if self.active_thread: ... stop() sets the stop event
stop_active_thread ==
    /\ uiPc = "stop_active_thread"
    /\ IF active_thread = 0
       THEN /\ Return
            /\ UNCHANGED threads
       ELSE /\ threads' = [threads EXCEPT ![active_thread].stop = TRUE]
            /\ uiPc' = "stop_wait"
            /\ UNCHANGED << uiStack, uiArgs >>
    /\ UNCHANGED << settings, optionsMode, active_thread, hw, zone, sc, wcol,
                    initPending, exited, events, faults, lastWriter, handovers >>

\* stop() that sets the event and does not wait for the thread
WaitReturns_NoJoin(t) == TRUE

\* QThread.wait() returns once the thread is not running
WaitReturns(t) == ~Live(t)

\* the thread object after stop() returned and the controller dropped its
\* reference: a finished thread's object is freed, its fields are gone
Released(th) ==
    IF th.state = "finished"
    THEN [NewThread("freed") EXCEPT !.state = "finished", !.stop = TRUE, !.joined = TRUE,
                                    !.error = th.error]
    ELSE [th EXCEPT !.joined = TRUE]

\* stop(): self.wait() returns; stop_active_thread: self.active_thread = None
stop_wait ==
    /\ uiPc = "stop_wait"
    /\ WaitReturns(active_thread)
    /\ threads' = [threads EXCEPT ![active_thread] = Released(@)]
    /\ active_thread' = 0
    /\ Return
    /\ UNCHANGED << settings, optionsMode, hw, zone, sc, wcol,
                    initPending, exited, events, faults, lastWriter, handovers >>

\* apply_static_color, first statement: self.stop_active_thread()
apply_static_color ==
    /\ uiPc = "apply_static_color"
    /\ Call("stop_active_thread", "apply_set")
    /\ UNCHANGED << settings, optionsMode, active_thread, threads, hw, zone, uiArgs,
                    sc, wcol, initPending, exited, events, faults, lastWriter, handovers >>

\* apply_static_color: set_color(color_hex, STATIC_DURATION_MS)
apply_set ==
    /\ uiPc = "apply_set"
    /\ EnterSetColor(uiArgs.color, << STATIC_DURATION_MS >>, "apply_static_color")
    /\ Call("set_color", "apply_save")
    /\ UNCHANGED << settings, optionsMode, active_thread, threads, hw, zone, uiArgs,
                    wcol, initPending, exited, events, faults, lastWriter, handovers >>

\* apply_static_color after set_color returned: persist the colour and the mode
apply_save ==
    /\ uiPc = "apply_save"
    /\ settings' = [lastMode |-> "Static Color", lastStaticColor |-> uiArgs.color]
    /\ sc' = NoCall
    /\ Return
    /\ UNCHANGED << optionsMode, active_thread, threads, hw, zone, wcol,
                    initPending, exited, events, faults, lastWriter, handovers >>

\* --------------------------------------------- set_color and write_color
\* set_color: the test of line 80 and the branch taken
set_color ==
    /\ uiPc = "set_color"
    /\ IF Truthy(sc.dur) /\ hw # None /\ lower(hw) # lower(sc.target)
       THEN /\ sc' = [sc EXCEPT !.from = hw, !.c0 = hex_to_rgb(hw),
                                !.c1 = hex_to_rgb(sc.target), !.i = 1,
                                !.state = "running"]
            /\ uiPc' = "set_color_loop"
            /\ UNCHANGED << uiStack, wcol >>
       ELSE /\ sc' = [sc EXCEPT !.from = hw, !.state = "running"]
            /\ wcol' = sc.target
            /\ Call("write_color", "set_color_return")
    /\ UNCHANGED << settings, optionsMode, active_thread, threads, hw, zone, uiArgs,
                    initPending, exited, events, faults, lastWriter, handovers >>

\* set_color: for i in range(1, steps + 1): write_color(...); time.sleep(delay)
set_color_loop ==
    /\ uiPc = "set_color_loop"
    /\ IF sc.i <= steps
       THEN /\ wcol' = StepColor(sc.c0, sc.c1, sc.i)
            /\ sc' = [sc EXCEPT !.i = sc.i + 1]
            /\ Call("write_color", "set_color_loop")
            /\ UNCHANGED uiArgs
       ELSE /\ sc' = [sc EXCEPT !.state = "returned"]
            /\ Return
            /\ UNCHANGED wcol
    /\ UNCHANGED << settings, optionsMode, active_thread, threads, hw, zone,
                    initPending, exited, events, faults, lastWriter, handovers >>

\* set_color returns after the direct write
set_color_return ==
    /\ uiPc = "set_color_return"
    /\ sc' = [sc EXCEPT !.state = "returned"]
    /\ Return
    /\ UNCHANGED << settings, optionsMode, active_thread, threads, hw, zone,
                    wcol, initPending, exited, events, faults, lastWriter, handovers >>

\* write_color in the event loop context: open(ZONE_PATH, "w") and f.write succeed
write_color_ok ==
    /\ uiPc = "write_color"
    /\ zone' = wcol
    /\ sc' = [sc EXCEPT !.n = sc.n + 1, !.last = wcol]
    /\ uiPc' = "write_assign"
    /\ UNCHANGED << settings, optionsMode, active_thread, threads, hw, uiStack, uiArgs,
                    wcol, initPending, exited, events, faults, lastWriter, handovers >>

\* the except clauses of write_color (PermissionError, Exception) print the
\* error and fall off the end: nothing is raised to the caller, None is returned
WriteErrorPropagates == FALSE

\* write_color recording the colour before the write is attempted
write_color_fail_Recorded ==
    /\ uiPc = "write_color"
    /\ faults < MaxFaults
    /\ faults' = faults + 1
    /\ hw' = wcol
    /\ sc' = [sc EXCEPT !.n = sc.n + 1, !.last = wcol, !.failed = TRUE,
                        !.raised = WriteErrorPropagates]
    /\ wcol' = None
    /\ Return
    /\ UNCHANGED << settings, optionsMode, active_thread, threads, zone,
                    initPending, exited, events, lastWriter, handovers >>

\* write_color: the open or the write raises
write_color_fail ==
    /\ uiPc = "write_color"
    /\ faults < MaxFaults
    /\ faults' = faults + 1
    /\ sc' = [sc EXCEPT !.n = sc.n + 1, !.last = wcol, !.failed = TRUE,
                        !.raised = WriteErrorPropagates]
    /\ wcol' = None
    /\ Return
    /\ UNCHANGED << settings, optionsMode, active_thread, threads, hw, zone,
                    initPending, exited, events, lastWriter, handovers >>

\* write_color: _current_hardware_color = col_hex
write_assign ==
    /\ uiPc = "write_assign"
    /\ hw' = wcol
    /\ wcol' = None
    /\ Return
    /\ UNCHANGED << settings, optionsMode, active_thread, threads, zone, sc,
                    initPending, exited, events, faults, lastWriter, handovers >>

\* ------------------------------------------------------ animation threads
\* the hue counter handed to fromHsv as it is
ThreadColor_NoWrap(th) ==
    IF th.kind = "Rainbow" THEN HsvName(th.hue)
                           ELSE Palette(th.kind)[th.color_index + 1]

\* the colour update_color / RainbowThread.run writes in this iteration
ThreadColor(th) ==
    IF th.kind = "Rainbow" THEN HsvName(th.hue % 360)
                           ELSE Palette(th.kind)[th.color_index + 1]

\* an update that leaves the pattern state where it was
Advance_Stuck(th) == th

\* the pattern state after the write: self.hue += 1, or the index modulo len(colors)
Advance(th) ==
    IF th.kind = "Rainbow"
    THEN [th EXCEPT !.hue = th.hue + 1]
    ELSE [th EXCEPT !.color_index = (th.color_index + 1) % Len(Palette(th.kind))]

\* a loop that does not test the stop event
run_check_NoStop(t) ==
    /\ Live(t)
    /\ threads[t].pc = "check"
    /\ Len(threads[t].log) < threads[t].limit + 2
    /\ threads' = [threads EXCEPT ![t].pc = "update"]
    /\ UNCHANGED << uiVars, hw, zone, faults, lastWriter, handovers >>

\* run: while not self.stop_event.is_set(), reached at start and after every
\* stop_event.wait(delay_s); run returns when the event is set
run_check(t) ==
    /\ Live(t)
    /\ threads[t].pc = "check"
    /\ IF threads[t].stop
       THEN threads' = [threads EXCEPT ![t].state = "finished"]
       ELSE /\ Len(threads[t].log) < threads[t].limit
            /\ threads' = [threads EXCEPT ![t].pc = "update"]
    /\ UNCHANGED << uiVars, hw, zone, faults, lastWriter, handovers >>

\* write_color in the thread: the write to ZONE_PATH succeeds
thread_write_ok(t) ==
    /\ Live(t)
    /\ threads[t].pc = "update"
    /\ zone' = ThreadColor(threads[t])
    /\ threads' = [threads EXCEPT ![t].pc = "assign",
                       ![t].log = Append(@, [col |-> ThreadColor(threads[t]), ok |-> TRUE,
                                         late |-> threads[t].stop])]
    /\ lastWriter' = t
    /\ handovers' = IF lastWriter \notin {0, t} THEN handovers + 1 ELSE handovers
    /\ UNCHANGED << uiVars, hw, faults >>

\* the write error escaping write_color: run's except clause ends the thread
AfterFailedWrite_Raises(th) == [th EXCEPT !.state = "finished"]

\* after a failed write_color the loop body goes on to advance the pattern
AfterFailedWrite(th) == [Advance(th) EXCEPT !.pc = "check"]

\* write_color in the thread: the write raises, the except clause prints
thread_write_fail(t) ==
    /\ Live(t)
    /\ threads[t].pc = "update"
    /\ faults < MaxFaults
    /\ faults' = faults + 1
    /\ threads' = [threads EXCEPT
                     ![t] = AfterFailedWrite(
                              [@ EXCEPT !.log = Append(@, [col |-> ThreadColor(threads[t]),
                                                           ok |-> FALSE,
                                                           late |-> threads[t].stop])])]
    /\ lastWriter' = t
    /\ handovers' = IF lastWriter \notin {0, t} THEN handovers + 1 ELSE handovers
    /\ UNCHANGED << uiVars, hw, zone >>

\* write_color in the thread: _current_hardware_color = col_hex; then the
\* pattern state advances and the thread waits on the stop event
thread_assign(t) ==
    /\ Live(t)
    /\ threads[t].pc = "assign"
    /\ hw' = ThreadColor(threads[t])
    /\ threads' = [threads EXCEPT ![t] = [Advance(@) EXCEPT !.pc = "check"]]
    /\ UNCHANGED << uiVars, zone, faults, lastWriter, handovers >>

\* an error in the loop body that leaves the thread running and stuck
thread_raise_Hangs(t) ==
    /\ Live(t)
    /\ threads[t].pc = "update"
    /\ faults < MaxFaults
    /\ faults' = faults + 1
    /\ threads' = [threads EXCEPT ![t].pc = "hung", ![t].error = TRUE]
    /\ UNCHANGED << uiVars, hw, zone, lastWriter, handovers >>

\* an error other than a write error is raised inside the loop body: the
\* except clause of run prints it and run returns
thread_raise(t) ==
    /\ Live(t)
    /\ threads[t].pc = "update"
    /\ faults < MaxFaults
    /\ faults' = faults + 1
    /\ threads' = [threads EXCEPT ![t].state = "finished", ![t].error = TRUE]
    /\ UNCHANGED << uiVars, hw, zone, lastWriter, handovers >>

\* ---------------------------------------------------------- specification
UIEvent ==
    \/ \E item \in ModeNames \cup Categories : on_mode(item)
    \/ \E hexc \in ClickedPresets : preset_clicked(hexc)
    \/ \E c \in CustomColors \cup {None} : pick_color(c)
    \/ \E w \in WallpaperColors : apply_wallpaper_color(w)
    \/ \E w \in WallpaperColors : initialize_state(w)
    \/ exit_app

UIStep ==
    \/ activate_mode
    \/ activate_branch
    \/ activate_return
    \/ start_thread
    \/ start_assign
    \/ stop_active_thread
    \/ stop_wait
    \/ apply_static_color
    \/ apply_set
    \/ apply_save
    \/ initial_color_setup
    \/ update_ui_from_settings
    \/ exit_quit
    \/ set_color
    \/ set_color_loop
    \/ set_color_return
    \/ write_color_ok
    \/ write_color_fail
    \/ write_assign

ThreadStep ==
    \E t \in 1..Len(threads) :
        \/ run_check(t)
        \/ thread_write_ok(t)
        \/ thread_write_fail(t)
        \/ thread_assign(t)
        \/ thread_raise(t)

Next == UIEvent \/ UIStep \/ ThreadStep

Spec == Init /\ [][Next]_vars

\* --------------------------------------- set_color on its own (SpecColor)
\* values _current_hardware_color can hold when set_color is entered
ColorStarts ==
    { None, Red, White, Orange, <<"F","F","0","0","0","0">>,
      <<"6","4","0","0","0","0">>, <<"0","0","0","0","0","0">>,
      <<"b","4","c","8","d","c">>, <<"f","f","0","4","0","0">>,
      <<"0","0","0","0","0","1">> }
\* target colours: presets, dialog colours, wallpaper colours of either case
ColorTargets ==
    { Red, White, Purple, <<"F","F","0","0","0","0">>, <<"0","0","0","0","0","0">>,
      <<"5","a","a","a","b","4">>, <<"A","1","b","2","C","3">>,
      <<"f","f","0","4","0","0">> }
Durations == { None, << 0 >>, << 1 >>, << STATIC_DURATION_MS >> }

InitColor ==
    /\ settings = [lastMode |-> "absent", lastStaticColor |-> None]
    /\ optionsMode = "Static Color"
    /\ active_thread = 0
    /\ threads = << >>
    /\ hw \in ColorStarts
    /\ zone = hw
    /\ uiPc = "set_color"
    /\ uiStack = << "idle" >>
    /\ uiArgs = NoArgs
    /\ \E col_hex \in ColorTargets, duration_ms \in Durations :
          sc = [NoCall EXCEPT !.target = col_hex, !.dur = duration_ms,
                              !.state = "called", !.caller = "set_color"]
    /\ wcol = None
    /\ initPending = FALSE
    /\ exited = FALSE
    /\ events = 0
    /\ faults = 0
    /\ lastWriter = 0
    /\ handovers = 0

NextColor ==
    \/ set_color
    \/ set_color_loop
    \/ set_color_return
    \/ write_color_ok
    \/ write_color_fail
    \/ write_assign

SpecColor == InitColor /\ [][NextColor]_vars

\* ------------------------------- the rainbow thread on its own (SpecRainbow)
\* Rainbow was selected and its thread runs; the device accepts every write
InitRainbow ==
    /\ settings = [lastMode |-> "Rainbow", lastStaticColor |-> None]
    /\ optionsMode = "Rainbow"
    /\ active_thread = 1
    /\ threads = << [NewThread("Rainbow") EXCEPT !.limit = HueTicks] >>
    /\ hw = None
    /\ zone = None
    /\ uiPc = "idle"
    /\ uiStack = << >>
    /\ uiArgs = NoArgs
    /\ sc = NoCall
    /\ wcol = None
    /\ initPending = FALSE
    /\ exited = FALSE
    /\ events = MaxEvents
    /\ faults = MaxFaults
    /\ lastWriter = 0
    /\ handovers = 0

NextRainbow ==
    \/ run_check(1)
    \/ thread_write_ok(1)
    \/ thread_assign(1)

SpecRainbow == InitRainbow /\ [][NextRainbow]_vars

\* ------------------- stopping a running animation on its own (SpecStop)
\* an animation of any kind was just started and a handler has called
\* stop_active_thread; the call is served at any point of the thread's run
InitStop ==
    /\ \E kind \in AnimatedModes :
          /\ settings = [lastMode |-> kind, lastStaticColor |-> None]
          /\ optionsMode = kind
          /\ threads = << NewThread(kind) >>
    /\ active_thread = 1
    /\ hw = None
    /\ zone = None
    /\ uiPc = "stop_active_thread"
    /\ uiStack = << "idle" >>
    /\ uiArgs = NoArgs
    /\ sc = NoCall
    /\ wcol = None
    /\ initPending = FALSE
    /\ exited = FALSE
    /\ events = MaxEvents
    /\ faults = 0
    /\ lastWriter = 0
    /\ handovers = 0

NextStop ==
    \/ stop_active_thread
    \/ stop_wait
    \/ ThreadStep

\* the operating system schedules the thread, the timed wait on the stop
\* event ends, and QThread.wait() returns once the thread has finished
SpecStop ==
    /\ InitStop
    /\ [][NextStop]_vars
    /\ WF_vars(ThreadStep)
    /\ WF_vars(stop_wait)

\* ================================================================ claims
LiveThreads == { t \in 1..Len(threads) : Live(t) }

\* C1: in every reachable state at most one animation thread is live; a new
\* thread is started only after the previous one has terminated.
C1_AtMostOneLive == Cardinality(LiveThreads) <= 1

\* a second animation runs after the first one was stopped
C1_Witness ==
    /\ Len(threads) >= 2
    /\ threads[1].joined
    /\ Live(2)
    /\ threads[2].log # << >>

\* C2: the event loop context never issues a write_color (from set_color)
\* while an animation thread is live.
C2_NoStaticWriteWhileLive ==
    uiPc \in {"write_color", "write_assign"} => LiveThreads = {}

\* C3: once a later started animation has written, no earlier started
\* animation writes again: the latest animation writer never goes back to an
\* older thread.
C3_NoInterleaving == [][lastWriter' >= lastWriter]_vars

\* animation 1 wrote, then animation 2 wrote
C3_Witness == handovers >= 1 /\ lastWriter = 2

\* C4: a thread whose stop() has returned is terminated and never acts
\* again, and stop_active_thread returns with active_thread empty.
C4_StopJoins ==
    /\ [](\A t \in 1..Len(threads) : threads[t].joined => ~Live(t))
    /\ [][ /\ \A t \in 1..Len(threads) : threads[t].joined => threads'[t] = threads[t]
           /\ (uiPc \in {"stop_active_thread", "stop_wait"}
                 /\ uiPc' \notin {"stop_active_thread", "stop_wait"})
              => active_thread' = 0 ]_vars

\* stop() returned for an animation that had written
C4_Witness ==
    /\ active_thread = 0
    /\ \E t \in 1..Len(threads) : threads[t].joined
    /\ lastWriter # 0

ColorOf(h) == hex_to_rgb(h)

\* C5: set_color(b, d) with d > 0 from a last written colour a, a and b
\* different colours, issues exactly 20 writes and the last one is the colour b.
C5_TransitionTwentyWrites ==
    (/\ sc.state = "returned"
     /\ Truthy(sc.dur)
     /\ sc.from # None
     /\ ColorOf(sc.from) # ColorOf(sc.target))
    => (sc.n = 20 /\ ColorOf(sc.last) = ColorOf(sc.target))

\* an interpolated transition between two different colours has returned
C5_Witness ==
    /\ sc.state = "returned"
    /\ Truthy(sc.dur)
    /\ sc.from # None
    /\ ColorOf(sc.from) # ColorOf(sc.target)
    /\ sc.n = 20
    /\ hw = lower(sc.target)

\* the two hex strings are equal up to the case of their digits
SameHexIgnoringCase(g, h) ==
    \A k \in 1..6 : DigitValue(g[k]) = DigitValue(h[k])

\* C6: set_color performs exactly one write, of the target string itself,
\* when the duration is zero or unset, or no colour has been written yet, or
\* the last written colour equals the target up to the case of the digits.
C6_DirectWrite ==
    (/\ sc.state = "returned"
     /\ \/ sc.dur = None
        \/ sc.dur = << 0 >>
        \/ sc.from = None
        \/ SameHexIgnoringCase(sc.from, sc.target))
    => (sc.n = 1 /\ sc.last = sc.target)

\* a positive duration, and a target that differs from the last written
\* colour only in the case of its digits, written once
C6_Witness ==
    /\ sc.state = "returned"
    /\ Truthy(sc.dur)
    /\ sc.from # None
    /\ sc.from # sc.target
    /\ SameHexIgnoringCase(sc.from, sc.target)
    /\ sc.n = 1
    /\ hw = sc.target

\* a step of thread t that issues a write (the log grows)
Wrote(t) == Len(threads'[t].log) = Len(threads[t].log) + 1

\* C7: a write_color call that succeeds sets _current_hardware_color to the
\* colour it wrote; a call that fails leaves _current_hardware_color, and the
\* device, as they were.
C7_WriteColorRecords ==
    [][ /\ (uiPc = "write_color" /\ uiPc' = "write_assign")
             => (zone' = wcol /\ hw' = hw)
        /\ (uiPc = "write_assign" /\ uiPc' # "write_assign")
             => (hw' = wcol /\ zone' = zone)
        /\ (uiPc = "write_color" /\ uiPc' \notin {"write_color", "write_assign"})
             => (hw' = hw /\ zone' = zone)
        /\ \A t \in 1..Len(threads) :
             /\ (Wrote(t) /\ threads'[t].log[Len(threads'[t].log)].ok)
                  => (zone' = threads'[t].log[Len(threads'[t].log)].col /\ hw' = hw)
             /\ (threads[t].pc = "assign" /\ threads'[t].pc # "assign")
                  => (hw' = threads[t].log[Len(threads[t].log)].col /\ zone' = zone)
             /\ (Wrote(t) /\ ~threads'[t].log[Len(threads'[t].log)].ok)
                  => (hw' = hw /\ zone' = zone)
      ]_vars

\* a direct write failed after an earlier write had succeeded: the earlier
\* colour is still the recorded one
C7_Witness ==
    /\ uiPc = "set_color_return"
    /\ sc.failed
    /\ hw # None
    /\ hw # sc.last
    /\ hw = zone

\* C8: a failed hardware write during a static colour application is
\* surfaced to the caller of set_color.
C8_FailureSurfaced ==
    (/\ sc.state = "returned"
     /\ sc.caller \in {"apply_static_color", "activate_mode"}
     /\ sc.failed)
    => sc.raised

\* C9: a failed write inside an animation tick does not end the animation:
\* a thread finishes only when its stop event is set, and the step of a
\* failed write leaves the thread in its loop with the pattern advanced.
C9_FailedTickContinues ==
    /\ [](\A t \in 1..Len(threads) :
            threads[t].state = "finished" => (threads[t].stop \/ threads[t].error))
    /\ [][ \A t \in 1..Len(threads) :
             (Wrote(t) /\ ~threads'[t].log[Len(threads'[t].log)].ok)
             => /\ threads'[t].state = "running"
                /\ threads'[t].pc = "check"
                /\ IF threads[t].kind = "Rainbow"
                   THEN threads'[t].hue = threads[t].hue + 1
                   ELSE threads'[t].color_index = (threads[t].color_index + 1) % 2
         ]_vars

\* an animation whose first write failed has issued the next tick's write
C9_Witness ==
    \E t \in 1..Len(threads) :
        /\ Live(t)
        /\ ~threads[t].stop
        /\ Len(threads[t].log) >= 2
        /\ ~threads[t].log[1].ok
        /\ threads[t].log[2].col # threads[t].log[1].col

\* C10: the k-th write of a two-colour animation is colors[(k - 1) mod 2],
\* so the writes are A, B, A, ... starting with A in every instance, and the
\* cursor has advanced by one modulo 2 per completed tick.
C10_Alternation ==
    \A t \in 1..Len(threads) :
        threads[t].kind \in {"New Year's", "Police"} =>
            /\ \A k \in 1..Len(threads[t].log) :
                 threads[t].log[k].col = Palette(threads[t].kind)[((k - 1) % 2) + 1]
            /\ threads[t].color_index =
                 (IF threads[t].pc = "assign" THEN Len(threads[t].log) - 1
                                              ELSE Len(threads[t].log)) % 2

\* a second instance has ticked three times: A, B, A
C10_Witness ==
    /\ Len(threads) >= 2
    /\ threads[2].kind \in {"New Year's", "Police"}
    /\ Len(threads[2].log) >= 3
    /\ threads[2].log[3].col = Red

\* ticks thread th has completed (write and advance)
CompletedTicks(th) == IF th.pc = "assign" THEN Len(th.log) - 1 ELSE Len(th.log)

\* C11 as stated: the hue counter of a rainbow thread stays in [0, 360).
C11_HueInRange ==
    \A t \in 1..Len(threads) :
        threads[t].kind = "Rainbow" => threads[t].hue \in 0..359

\* C11 amended: the hue counter starts at 0 and counts the ticks without
\* being reduced; the hue converted at tick k is (k - 1) mod 360, and the
\* colour written 360 ticks later is the same.
C11_HueWraps ==
    \A t \in 1..Len(threads) :
        threads[t].kind = "Rainbow" =>
            /\ threads[t].hue = CompletedTicks(threads[t])
            /\ \A k \in 1..Len(threads[t].log) :
                 /\ threads[t].log[k].col = HsvName((k - 1) % 360)
                 /\ k > 360 => threads[t].log[k].col = threads[t].log[k - 360].col

\* the rainbow thread has completed 360 ticks and written once more
C11_Witness ==
    /\ Len(threads) = 1
    /\ threads[1].kind = "Rainbow"
    /\ threads[1].hue >= 360
    /\ Len(threads[1].log) >= 361
    /\ threads[1].log[361].col = Red

\* a string of six digits out of 0-9, a-f
IsLowerHex6(h) ==
    /\ Len(h) = 6
    /\ \A k \in 1..6 : \E v \in 1..16 : HexDigits[v] = h[k]

\* C12: every payload handed to the hardware endpoint, by the event loop or
\* by an animation thread, is a 6-character lowercase hex string.
C12_LowercasePayload ==
    /\ uiPc = "write_color" => IsLowerHex6(wcol)
    /\ zone # None => IsLowerHex6(zone)
    /\ \A t \in 1..Len(threads) :
         \A k \in 1..Len(threads[t].log) : IsLowerHex6(threads[t].log[k].col)

\* initialize_state is running and the wallpaper source returned a colour
WallpaperStartup == uiArgs.is_startup /\ uiArgs.color # None

\* C13: at startup a wallpaper colour is applied with one direct write of the
\* colour itself, lastMode becomes Static Color and lastStaticColor the
\* colour, and no thread is started or stopped (the stored mode is not
\* activated).
C13_WallpaperStartup ==
    /\ []((WallpaperStartup /\ uiPc = "initial_color_setup")
            => (sc.state = "returned" /\ sc.n = 1 /\ sc.last = uiArgs.color
                /\ sc.dur = None))
    /\ []((WallpaperStartup /\ uiPc = "update_ui_from_settings")
            => settings = [lastMode |-> "Static Color",
                           lastStaticColor |-> uiArgs.color])
    /\ [][(WallpaperStartup \/ (initPending /\ ~initPending' /\ uiArgs'.color # None))
            => (Len(threads') = Len(threads) /\ active_thread' = active_thread)]_vars

\* the wallpaper colour was written and persisted while a recorded colour
\* already existed
C13_Witness ==
    /\ WallpaperStartup
    /\ uiPc = "update_ui_from_settings"
    /\ settings.lastMode = "Static Color"
    /\ zone = uiArgs.color
    /\ hw = uiArgs.color
    /\ events > 0

\* initialize_state is running and the wallpaper source returned nothing
LoadStartup == uiArgs.is_startup /\ uiArgs.color = None

C15_ShutdownCancels ==
    /\ [](exited => LiveThreads = {})
    /\ [][exited => UNCHANGED << zone, hw, lastWriter, threads, sc, wcol >>]_vars

\* the application exited while an animation that had written was running
C15_Witness ==
    /\ exited
    /\ active_thread = 0
    /\ lastWriter # 0
    /\ threads[lastWriter].joined
    /\ \A t \in 1..Len(threads) : threads[t].joined

\* set_color is interpolating and has just issued its first write_color
FirstStepIssued == uiPc = "write_color" /\ sc.i = 2

\* x lies between p and q, ends included
Between(x, p, q) == (p <= x /\ x <= q) \/ (q <= x /\ x <= p)

\* C16 as stated: the first write of a transition is neither the start
\* colour nor the target colour.
C16_FirstStrictlyBetween ==
    FirstStepIssued =>
        (hex_to_rgb(wcol) # sc.c0 /\ hex_to_rgb(wcol) # sc.c1)

\* C16: the first of the 20 writes of a transition from a to b lies, channel
\* by channel, between a and b with the ends included; it is the start colour
\* a exactly when every channel of b is 0 to 19 above that of a, and the
\* target b exactly when every channel of b is equal to or one below that of a.
C16_FirstWrite ==
    FirstStepIssued =>
        LET f == hex_to_rgb(wcol)
            d == [k \in 1..3 |-> sc.c1[k] - sc.c0[k]]
        IN  /\ \A k \in 1..3 : Between(f[k], sc.c0[k], sc.c1[k])
            /\ (f = sc.c0) <=> (\A k \in 1..3 : d[k] \in 0..19)
            /\ (f = sc.c1) <=> (\A k \in 1..3 : d[k] \in {-1, 0})

\* a transition between two different colours whose first write repeats the
\* start colour
C16_Witness ==
    /\ FirstStepIssued
    /\ sc.c0 # sc.c1
    /\ hex_to_rgb(wcol) = sc.c0
    /\ wcol # sc.from

\* set_color is interpolating and has just issued the write of step sc.i - 1
StepIssued == uiPc = "write_color" /\ sc.i >= 2

\* the colour of the write before the one just issued (the start colour
\* before step 1)
PreviousWrite == IF sc.n = 0 THEN sc.c0 ELSE hex_to_rgb(sc.last)

\* trunc(c0 + (c1 - c0) * i / 20) in exact arithmetic; the value is never negative
ExactStep(c0, c1, i) == (steps * c0 + (c1 - c0) * i) \div steps

\* the written channels move towards the target and stay between start and target
C17_MonotoneInRange ==
    StepIssued =>
        LET f == hex_to_rgb(wcol)
        IN  \A k \in 1..3 :
              /\ sc.c1[k] >= sc.c0[k] => f[k] >= PreviousWrite[k]
              /\ sc.c1[k] <= sc.c0[k] => f[k] <= PreviousWrite[k]
              /\ Between(f[k], sc.c0[k], sc.c1[k])
              /\ f[k] \in 0..255

\* C17: during a transition every channel moves monotonically towards the
\* target, stays between start and target (so within 0..255), and step i
\* writes trunc(start + (end - start) * i / 20) per channel.
C17_StepFormula ==
    /\ C17_MonotoneInRange
    /\ StepIssued =>
         \A k \in 1..3 :
            hex_to_rgb(wcol)[k] = ExactStep(sc.c0[k], sc.c1[k], sc.i - 1)

\* C18 as stated: a thread whose loop body raised has terminated and
\* active_thread no longer refers to it.
C18_SlotEmptied ==
    \A t \in 1..Len(threads) :
        threads[t].error => (~Live(t) /\ active_thread # t)

\* C18: a thread whose loop body raises terminates; the step changes nothing
\* of the event loop context, and active_thread keeps referring to the
\* terminated thread; the next stop_active_thread does not block on it and
\* clears active_thread, after which a new animation is started.
C18_ErrorContained ==
    /\ [](\A t \in 1..Len(threads) : threads[t].error => ~Live(t))
    /\ [][\A t \in 1..Len(threads) :
            (~threads[t].error /\ threads'[t].error)
               => (UNCHANGED uiVars /\ active_thread' = t)]_vars
    /\ []((uiPc = "stop_wait" /\ threads[active_thread].error)
            => WaitReturns(active_thread))
    /\ [][(uiPc = "stop_wait" /\ threads[active_thread].error /\ uiPc' # "stop_wait")
            => active_thread' = 0]_vars

\* a thread ended by an error, and the animation started after it is running
\* and has written
C18_Witness ==
    /\ Len(threads) >= 2
    /\ threads[1].error
    /\ threads[1].joined
    /\ active_thread = Len(threads)
    /\ Live(active_thread)
    /\ \E k \in 1..Len(threads[active_thread].log) : threads[active_thread].log[k].ok

\* C19: whenever the event loop is idle after the startup initialisation and
\* before exit, active_thread holds a thread if and only if the stored
\* lastMode is an animated mode, that thread's kind is the stored mode, and
\* no thread is live when lastMode is Static Color.
C19_AnimationMatchesMode ==
    (Idle /\ ~initPending) =>
        /\ (active_thread # 0) <=> (settings.lastMode \in AnimatedModes)
        /\ active_thread # 0 => threads[active_thread].kind = settings.lastMode
        /\ settings.lastMode = "Static Color" => LiveThreads = {}

\* the writes thread t issued with its stop event already set
LateWrites(t) ==
    { k \in 1..Len(threads[t].log) : threads[t].log[k].late }

\* C20: a thread whose stop event is set issues at most one further write,
\* issues none once it is back at the loop test (so none at all when the
\* event is set before its first test), and terminates; stop() then returns.
C20_BoundedCancellation ==
    /\ [](\A t \in 1..Len(threads) : Cardinality(LateWrites(t)) <= 1)
    /\ [][\A t \in 1..Len(threads) :
            (threads[t].stop /\ threads[t].pc = "check")
               => Len(threads'[t].log) <= Len(threads[t].log)]_vars
    /\ ((\E t \in 1..Len(threads) : threads[t].stop /\ Live(t))
          ~> (\A t \in 1..Len(threads) : threads[t].stop => ~Live(t)))
    /\ ((uiPc = "stop_wait") ~> (uiPc # "stop_wait" /\ active_thread = 0))

\* the stop event was set in the middle of a tick: the thread finished that
\* tick's write and terminated at the next loop test
C20_Witness ==
    /\ uiPc = "stop_wait"
    /\ threads[1].stop
    /\ ~Live(1)
    /\ Len(threads[1].log) >= 2
    /\ Cardinality(LateWrites(1)) = 1

====
